---- MODULE Spec2Model ----
(***************************************************************************)
(* A model of bot.py: the UFCStats scraper (get_next_event,                *)
(* get_fight_card), the message formatter (format_message), the posting    *)
(* pipeline (post_update) and the one-minute polling scheduler             *)
(* (scheduler_loop, started by on_ready).                                  *)
(*                                                                         *)
(* Text is a sequence of tokens (a token is one character or one run of    *)
(* characters that the code never looks inside); " " and "\n" are the      *)
(* whitespace tokens.  Markup is a record of the elements the selectors    *)
(* of the code can find.  Local time in TZ is a count of clock units since *)
(* Monday 00:00:00; the posting slot (Friday 12:00) is far from the        *)
(* Sunday-night DST changes of Europe/Copenhagen, so the wall clock is     *)
(* taken to run evenly through the week.                                   *)
(***************************************************************************)
EXTENDS Integers, Sequences, FiniteSets, TLC

VARIABLES
    \* ---- scheduler and pipeline ----
    now,          \* datetime.now(TZ), in clock units since Monday 00:00:00
    channelId,    \* CHANNEL_ID (bot.py:47)
    loop,         \* scheduler_loop task: "stopped", "sleeping", "posting", "failed"
    sleepLeft,    \* clock units until the loop's next nominal iteration
    ran,          \* clock units the running post_update has taken so far
    slotFires,    \* scheduled post_update calls in the current slot occurrence (2 = two or more)
    outcome,      \* what the latest post_update call did, or None
    sent,         \* the messages the latest post_update call passed to channel.send
    \* ---- get_next_event ----
    listing,      \* the response to the request for UFCSTATS_UPCOMING
    eventResult,  \* what get_next_event returned or raised, or None
    \* ---- get_fight_card ----
    eventUrl,     \* the event_url argument
    page,         \* the response to the request for the event page
    primary,      \* the list `fights` after the primary loop (bot.py:117)
    cardResult,   \* what get_fight_card returned or raised, or None
    \* ---- format_message ----
    fmtEvent,     \* the event argument
    fmtFights,    \* the fights argument
    fmtResult     \* the returned text, or None

schedVars == <<now, channelId, loop, sleepLeft, ran, slotFires, outcome, sent>>
eventVars == <<listing, eventResult>>
cardVars  == <<eventUrl, page, primary, cardResult>>
fmtVars   == <<fmtEvent, fmtFights, fmtResult>>
vars      == <<schedVars, eventVars, cardVars, fmtVars>>

----------------------------------------------------------------------------
(* Bounds of the model *)

UnitsPerMinute == 2   \* clock resolution: units per minute of local time
MaxLate        == 1   \* a sleeping loop wakes at most this many units late
MaxRun         == 3   \* a post_update call takes at most this many units
MaxElems       == 6   \* rows, containers and links on one event page
MaxEvents      == 2   \* rows of the upcoming-events table
MaxFights      == 10  \* fights handed to format_message

----------------------------------------------------------------------------
(* Configuration, bot.py:35-47 *)

POST_WEEKDAY == 4
POST_HOUR    == 12
POST_MINUTE  == 0
LOOP_MINUTES == 1
SHOWN_FIGHTS == 8

UFCSTATS_UPCOMING == <<"https://ufcstats.com/statistics/events/upcoming">>

----------------------------------------------------------------------------
(* Values *)

\* An optional value is a sequence of length 0 or 1: None is Python's None (no
\* element, no attribute, nothing returned yet), Some(x) is the value x.
None    == <<>>
Some(x) == <<x>>
The(o)  == o[1]

Whitespace == {" ", "\n"}

Min(a, b) == IF a < b THEN a ELSE b

SeqUpTo(S, n) == UNION {[1..k -> S] : k \in 0..n}

----------------------------------------------------------------------------
(* Text *)

RECURSIVE LStrip(_)
LStrip(s) == IF s # <<>> /\ Head(s) \in Whitespace THEN LStrip(Tail(s)) ELSE s

RECURSIVE RStrip(_)
RStrip(s) ==
    IF s # <<>> /\ s[Len(s)] \in Whitespace THEN RStrip(SubSeq(s, 1, Len(s) - 1)) ELSE s

\* element.get_text(strip=True) of an element holding one text node
get_text(el) == RStrip(LStrip(el.text))

\* str(n) for n >= 0: the decimal digits, one token each
Digit(d) == CASE d = 0 -> "0" [] d = 1 -> "1" [] d = 2 -> "2" [] d = 3 -> "3"
              [] d = 4 -> "4" [] d = 5 -> "5" [] d = 6 -> "6" [] d = 7 -> "7"
              [] d = 8 -> "8" [] d = 9 -> "9"

RECURSIVE str(_)
str(n) == IF n < 10 THEN <<Digit(n)>> ELSE str(n \div 10) \o <<Digit(n % 10)>>

\* sep.join(parts)
RECURSIVE join(_, _)
join(sep, parts) ==
    IF parts = <<>> THEN <<>>
    ELSE IF Len(parts) = 1 THEN parts[1]
    ELSE parts[1] \o sep \o join(sep, Tail(parts))

----------------------------------------------------------------------------
(* Scraper, bot.py:53-127                                                  *)
(*                                                                         *)
(* A response is [status |-> "ok", body |-> markup] or a record whose      *)
(* status is "network", "timeout" or "http_error".  A call returns         *)
(* [raised |-> None, value |-> v] or [raised |-> Some([type, message])].   *)

Returned(v)      == [raised |-> None, value |-> v]
Raised(ty, text) == [raised |-> Some([type |-> ty, message |-> text])]

\* an optional text used as a condition: None and "" are false
Truthy(x) == x # None /\ The(x) # <<>>

\* fetch: session.get with a 20 s timeout, raise_for_status, r.text()
fetch(resp) ==
    CASE resp.status = "network"    -> Raised("ClientError", "connection failed")
      [] resp.status = "timeout"    -> Raised("TimeoutError", "timed out")
      [] resp.status = "http_error" -> Raised("ClientResponseError", "status not 2xx")
      [] resp.status = "ok"         -> Returned(resp.body)

\* title = a.get_text(strip=True) if a else "UFC Event"
EventTitle(a) == IF a # None THEN get_text(The(a)) ELSE <<"UFC Event">>

\* get_next_event: body.table is None or Some(rows), the rows of the first
\* table.b-statistics__table-events; a row is [a, date_cell, loc_cell], each
\* None or an element, and a.href is None when the link has no href attribute
get_next_event(resp) ==
    LET html == fetch(resp) IN
    IF html.raised # None THEN html
    ELSE LET table == html.value.table IN
    IF table = None
    THEN Raised("RuntimeError", "Could not locate upcoming events table on UFCStats.")
    ELSE IF The(table) = <<>>
    THEN Raised("RuntimeError", "No upcoming event rows found.")
    ELSE LET first_row == The(table)[1]
             a         == first_row.a
             date_cell == first_row.date_cell
             loc_cell  == first_row.loc_cell
         IN  Returned([title     |-> EventTitle(a),
                       date_text |-> IF date_cell # None THEN get_text(The(date_cell)) ELSE <<>>,
                       location  |-> IF loc_cell # None THEN get_text(The(loc_cell)) ELSE <<>>,
                       url       |-> IF a # None /\ The(a).href # None THEN The(a).href ELSE None])

\* Dedup with the `n not in seen` test left out
RECURSIVE DedupKeepRepeats(_, _)
DedupKeepRepeats(names, fighters) ==
    IF names = <<>> THEN fighters
    ELSE IF Head(names) # <<>>
         THEN DedupKeepRepeats(Tail(names), Append(fighters, Head(names)))
         ELSE DedupKeepRepeats(Tail(names), fighters)

\* the loop of bot.py:110-113: the distinct non-empty names, first seen first
RECURSIVE Dedup(_, _)
Dedup(names, fighters) ==
    IF names = <<>> THEN fighters
    ELSE LET n == Head(names) IN
         IF n # <<>> /\ n \notin {fighters[i] : i \in 1..Len(fighters)}
         THEN Dedup(Tail(names), Append(fighters, n))
         ELSE Dedup(Tail(names), fighters)

\* what one fight row appends to `fights` (bot.py:102-116): a list of 0 or 1 fights
RowFights(row) ==
    LET weight   == IF row.weight_td # None THEN get_text(The(row.weight_td)) ELSE <<>>
        names    == [i \in 1..Len(row.links) |-> get_text(row.links[i])]
        fighters == Dedup(names, <<>>)
    IN  IF Len(fighters) >= 2
        THEN <<[weight |-> weight, red |-> fighters[1], blue |-> fighters[2]]>>
        ELSE <<>>

\* the primary strategy, bot.py:98-116: the rows in page order
RECURSIVE PrimaryFights(_)
PrimaryFights(rows) ==
    IF rows = <<>> THEN <<>> ELSE RowFights(Head(rows)) \o PrimaryFights(Tail(rows))

\* what one div.b-fight-details__fight appends in the fallback (bot.py:121-125)
BoutFights(bout) ==
    LET weight  == IF bout.title # None THEN get_text(The(bout.title)) ELSE <<>>
        persons == [i \in 1..Len(bout.persons) |-> get_text(bout.persons[i])]
    IN  IF Len(persons) >= 2
        THEN <<[weight |-> weight, red |-> persons[1], blue |-> persons[2]]>>
        ELSE <<>>

\* the fallback strategy, bot.py:119-125
RECURSIVE FallbackFights(_)
FallbackFights(bouts) ==
    IF bouts = <<>> THEN <<>> ELSE BoutFights(Head(bouts)) \o FallbackFights(Tail(bouts))

\* get_fight_card: body.rows are the tr.b-fight-details__table-row... rows,
\* body.bouts the div.b-fight-details__fight containers
get_fight_card(event_url, resp) ==
    IF ~Truthy(event_url) THEN Returned(<<>>)
    ELSE LET html == fetch(resp) IN
    IF html.raised # None THEN html
    ELSE LET fights == PrimaryFights(html.value.rows) IN
         IF fights = <<>> THEN Returned(FallbackFights(html.value.bouts))
         ELSE Returned(fights)

----------------------------------------------------------------------------
(* Formatting, bot.py:131-151                                              *)
(*                                                                         *)
(* The glyphs of the format strings are opaque tokens: DATE, PIN, LINK,    *)
(* BULLET, SEP, DASH and ELLIPSIS stand for the byte runs of the source.   *)

\* dict.get(key, default)
Get(d, key, default) == IF key \in DOMAIN d THEN d[key] ELSE default

\* header = f"**{title}**\n.. {date_text}  ..  .. {location}\n.. More: {url}\n\n**Fight Card**"
Header(title, date_text, location, url) ==
    <<"**">> \o title \o <<"**", "\n", "DATE ">> \o date_text \o <<"  SEP  ", "PIN ">>
        \o location \o <<"\n", "LINK More: ">> \o url \o <<"\n", "\n", "**Fight Card**">>

\* one rendered fight, bot.py:142-146
FightLine(fight) ==
    LET w == Get(fight, "weight", <<>>) IN
    IF w # <<>>
    THEN <<"BULLET ">> \o fight.red \o <<" vs ">> \o fight.blue \o <<"  DASH  *">> \o w \o <<"*">>
    ELSE <<"BULLET ">> \o fight.red \o <<" vs ">> \o fight.blue

\* fights[:8] with the slice left out
ShownAll(fights) == fights

\* fights[:8]
Shown(fights) == SubSeq(fights, 1, Min(Len(fights), SHOWN_FIGHTS))

\* the list `lines`, bot.py:140-149
BodyLines(fights) ==
    [i \in 1..Len(Shown(fights)) |-> FightLine(Shown(fights)[i])]
        \o (IF Len(fights) > SHOWN_FIGHTS
            THEN << <<"ELLIPSIS", "and ">> \o str(Len(fights) - SHOWN_FIGHTS) \o <<" more bouts">> >>
            ELSE <<>>)

format_message(event, fights) ==
    LET title     == Get(event, "title", <<"Upcoming UFC Event">>)
        date_text == Get(event, "date_text", <<"TBA">>)
        location  == Get(event, "location", <<"TBA">>)
        url       == IF Truthy(Get(event, "url", None)) THEN The(event.url) ELSE UFCSTATS_UPCOMING
    IN  Header(title, date_text, location, url) \o <<"\n">> \o join(<<"\n">>, BodyLines(fights))

----------------------------------------------------------------------------
(* The variables of the parts a specification leaves alone *)

SchedIdle ==
    /\ now = 0 /\ channelId = 0 /\ loop = "stopped" /\ sleepLeft = 0 /\ ran = 0
    /\ slotFires = 0 /\ outcome = None /\ sent = <<>>

EventIdle == listing = [status |-> "network"] /\ eventResult = None

CardIdle ==
    /\ eventUrl = None /\ page = [status |-> "network"]
    /\ primary = <<>> /\ cardResult = None

FmtIdle == fmtEvent = [title |-> <<>>] /\ fmtFights = <<>> /\ fmtResult = None

----------------------------------------------------------------------------
(* format_message applied to bounded arguments *)

EventUrl == <<"http://ufcstats.com/event-details/1">>

\* the dicts get_next_event can return, and one that lacks the optional keys
EventArgs ==
    [title     : {<<>>, <<"UFC 300">>},
     date_text : {<<"April 13, 2024">>},
     location  : {<<>>, <<"Las Vegas">>},
     url       : {None, Some(EventUrl)}]
    \cup {[title |-> <<"UFC 300">>]}

FightArgs ==
    {[weight |-> <<"Lightweight">>, red |-> <<"A">>, blue |-> <<"B">>],
     [weight |-> <<>>, red |-> <<"B">>, blue |-> <<"A">>]}

FmtInit ==
    /\ fmtEvent \in EventArgs
    /\ fmtFights \in SeqUpTo(FightArgs, MaxFights)
    /\ fmtResult = None
    /\ SchedIdle /\ EventIdle /\ CardIdle

CallFormatMessage ==
    /\ fmtResult = None
    /\ fmtResult' = Some(format_message(fmtEvent, fmtFights))
    /\ UNCHANGED <<fmtEvent, fmtFights, schedVars, eventVars, cardVars>>

FmtNext == CallFormatMessage

SpecFormat == FmtInit /\ [][FmtNext]_vars

----------------------------------------------------------------------------
(* get_next_event applied to bounded responses *)

LinkElems ==
    [text : {<<>>, <<" ">>, <<"UFC 300">>, <<"\n", "UFC 300", " ">>},
     href : {None, Some(EventUrl)}]

ListingRows ==
    [a         : {None} \cup {Some(e) : e \in LinkElems},
     date_cell : {None, Some([text |-> <<" ", "April 13, 2024">>])},
     loc_cell  : {None, Some([text |-> <<"Las Vegas", "\n">>])}]

ListingResponses ==
    {[status |-> st] : st \in {"network", "timeout", "http_error"}}
    \cup {[status |-> "ok", body |-> [table |-> None]]}
    \cup {[status |-> "ok", body |-> [table |-> Some(rows)]] :
             rows \in SeqUpTo(ListingRows, MaxEvents)}

EventInit ==
    /\ listing \in ListingResponses
    /\ eventResult = None
    /\ SchedIdle /\ CardIdle /\ FmtIdle

CallGetNextEvent ==
    /\ eventResult = None
    /\ eventResult' = Some(get_next_event(listing))
    /\ UNCHANGED <<listing, schedVars, cardVars, fmtVars>>

EventNext == CallGetNextEvent

SpecEvent == EventInit /\ [][EventNext]_vars

----------------------------------------------------------------------------
(* get_fight_card applied to bounded event pages                           *)
(*                                                                         *)
(* The page is put together one element at a time, rows before containers, *)
(* until get_fight_card is called on it.                                   *)

WeightCells == {None, Some([text |-> <<"Lightweight", " ">>])}

NameLinks == {[text |-> t] : t \in {<<" ">>, <<"A">>, <<"A", " ">>, <<"B">>}}

RECURSIVE SumLen(_)
SumLen(seqs) == IF seqs = <<>> THEN 0 ELSE Len(Head(seqs)) + SumLen(Tail(seqs))

\* the elements of an event page that the selectors of get_fight_card match
Elems(body) ==
    Len(body.rows) + SumLen([i \in 1..Len(body.rows) |-> body.rows[i].links])
    + Len(body.bouts) + SumLen([i \in 1..Len(body.bouts) |-> body.bouts[i].persons])

CardInit ==
    /\ eventUrl \in {None, Some(<<>>), Some(EventUrl)}
    /\ page \in {[status |-> st] : st \in {"network", "timeout", "http_error"}}
                \cup {[status |-> "ok", body |-> [rows |-> <<>>, bouts |-> <<>>]]}
    /\ primary = <<>>
    /\ cardResult = None
    /\ SchedIdle /\ EventIdle /\ FmtIdle

Building ==
    /\ cardResult = None
    /\ eventUrl = Some(EventUrl)
    /\ page.status = "ok"
    /\ Elems(page.body) < MaxElems

\* one more tr.b-fight-details__table-row...js-fight-details-click
AddRow ==
    /\ Building
    /\ page.body.bouts = <<>>
    /\ \E w \in WeightCells :
          page' = [page EXCEPT !.body.rows = Append(@, [weight_td |-> w, links |-> <<>>])]
    /\ UNCHANGED <<eventUrl, primary, cardResult, schedVars, eventVars, fmtVars>>

\* one more a.b-link.b-link_style_black in the last row
AddLink ==
    /\ Building
    /\ page.body.bouts = <<>>
    /\ page.body.rows # <<>>
    /\ \E a \in NameLinks :
          page' = [page EXCEPT !.body.rows[Len(page.body.rows)].links = Append(@, a)]
    /\ UNCHANGED <<eventUrl, primary, cardResult, schedVars, eventVars, fmtVars>>

\* one more div.b-fight-details__fight
AddBout ==
    /\ Building
    /\ \E t \in WeightCells :
          page' = [page EXCEPT !.body.bouts = Append(@, [title |-> t, persons |-> <<>>])]
    /\ UNCHANGED <<eventUrl, primary, cardResult, schedVars, eventVars, fmtVars>>

\* one more div.b-fight-details__person a in the last container
AddPerson ==
    /\ Building
    /\ page.body.bouts # <<>>
    /\ \E a \in NameLinks :
          page' = [page EXCEPT !.body.bouts[Len(page.body.bouts)].persons = Append(@, a)]
    /\ UNCHANGED <<eventUrl, primary, cardResult, schedVars, eventVars, fmtVars>>

CallGetFightCard ==
    /\ cardResult = None
    /\ cardResult' = Some(get_fight_card(eventUrl, page))
    /\ primary' = IF Truthy(eventUrl) /\ page.status = "ok"
                  THEN PrimaryFights(page.body.rows) ELSE <<>>
    /\ UNCHANGED <<eventUrl, page, schedVars, eventVars, fmtVars>>

CardNext == AddRow \/ AddLink \/ AddBout \/ AddPerson \/ CallGetFightCard

SpecCard == CardInit /\ [][CardNext]_vars

----------------------------------------------------------------------------
(* Local time, bot.py:183-188 *)

DayUnits  == 24 * 60 * UnitsPerMinute
WeekUnits == 7 * DayUnits

\* now.weekday(), now.hour, now.minute
weekday(t) == t \div DayUnits
hour(t)    == (t \div (60 * UnitsPerMinute)) % 24
minute(t)  == (t \div UnitsPerMinute) % 60

\* the test of scheduler_loop with the minute left out
ShouldPostAnyMinute(t) == weekday(t) = POST_WEEKDAY /\ hour(t) = POST_HOUR

\* the test of scheduler_loop, bot.py:184-188
ShouldPost(t) ==
    weekday(t) = POST_WEEKDAY /\ hour(t) = POST_HOUR /\ minute(t) = POST_MINUTE

----------------------------------------------------------------------------
(* The pipeline, bot.py:158-179 *)

FALLBACK_MESSAGE ==
    <<"Couldn't fetch the next UFC event right now. ", "(The source might have changed.)">>

\* the try block with a failed request for the event page not raising
BuildMessageCardErrorIgnored(listingResp, cardResp) ==
    LET event == get_next_event(listingResp) IN
    IF event.raised # None THEN [caught |-> event.raised, msg |-> FALLBACK_MESSAGE]
    ELSE LET fights == get_fight_card(event.value.url, cardResp) IN
         [caught |-> None,
          msg    |-> format_message(event.value,
                                    IF fights.raised # None THEN <<>> ELSE fights.value)]

\* the try/except of post_update, bot.py:164-173: the message, and the
\* exception that was caught and logged
BuildMessage(listingResp, cardResp) ==
    LET event == get_next_event(listingResp) IN
    IF event.raised # None THEN [caught |-> event.raised, msg |-> FALLBACK_MESSAGE]
    ELSE LET fights == get_fight_card(event.value.url, cardResp) IN
         IF fights.raised # None THEN [caught |-> fights.raised, msg |-> FALLBACK_MESSAGE]
         ELSE [caught |-> None, msg |-> format_message(event.value, fights.value)]

\* post_update: cid is CHANNEL_ID, the responses are what the two requests get,
\* found is whether client.get_channel finds the channel, delivered whether
\* channel.send succeeds.  `sent` are the messages passed to channel.send and
\* `raised` the exception that leaves post_update.
post_update(cid, listingResp, cardResp, found, delivered) ==
    IF cid = 0
    THEN [configured |-> FALSE, listing |-> None, card |-> None, built |-> None,
          found |-> FALSE, sent |-> <<>>, raised |-> None]
    ELSE LET b == BuildMessage(listingResp, cardResp) IN
         IF ~found
         THEN [configured |-> TRUE, listing |-> Some(listingResp), card |-> Some(cardResp),
               built |-> Some(b), found |-> FALSE, sent |-> <<>>, raised |-> None]
         ELSE [configured |-> TRUE, listing |-> Some(listingResp), card |-> Some(cardResp),
               built |-> Some(b), found |-> TRUE, sent |-> <<b.msg>>,
               raised |-> IF delivered THEN None
                          ELSE Some([type |-> "HTTPException", message |-> "send failed"])]

----------------------------------------------------------------------------
(* The scheduler, bot.py:181-200                                           *)
(*                                                                         *)
(* tasks.loop(minutes=1) runs scheduler_loop once when started and then    *)
(* once per minute: each iteration is due one minute after the time the    *)
(* previous one was due, or at once when that time has passed while the    *)
(* body ran.  A sleeping task wakes when it is due or up to MaxLate units  *)
(* later.  An exception that leaves the body ends the task; a failing      *)
(* channel.send raises discord.HTTPException (or its subclass Forbidden).  *)

GoodRow ==
    [a         |-> Some([text |-> <<"UFC 300">>, href |-> Some(EventUrl)]),
     date_cell |-> Some([text |-> <<"April 13, 2024">>]),
     loc_cell  |-> Some([text |-> <<"Las Vegas">>])]

NoTableListing == [status |-> "ok", body |-> [table |-> None]]
EmptyListing   == [status |-> "ok", body |-> [table |-> Some(<<>>)]]
GoodListing    == [status |-> "ok", body |-> [table |-> Some(<<GoodRow>>)]]

ListingSamples ==
    {[status |-> "timeout"], [status |-> "http_error"], NoTableListing, EmptyListing, GoodListing}

GoodCard ==
    [status |-> "ok",
     body   |-> [rows  |-> <<[weight_td |-> Some([text |-> <<"Lightweight">>]),
                              links |-> <<[text |-> <<"A">>], [text |-> <<"A">>],
                                          [text |-> <<"B">>], [text |-> <<"B">>]>>]>>,
                 bouts |-> <<>>]]

CardSamples == {[status |-> "network"], GoodCard}

Running == loop \in {"sleeping", "posting"}

\* the first instant hh:mm:00 of the weekly slot, and the instants of its minute
SlotInstant == ((POST_WEEKDAY * 24 + POST_HOUR) * 60 + POST_MINUTE) * UnitsPerMinute
InSlot(t)   == t \in SlotInstant..(SlotInstant + UnitsPerMinute - 1)

SchedInit ==
    /\ now \in 0..(WeekUnits - 1)
    /\ channelId \in {0, 1}
    /\ loop = "stopped"
    /\ sleepLeft = 0
    /\ ran = 0
    /\ slotFires = 0
    /\ outcome = None
    /\ sent = <<>>
    /\ EventIdle /\ CardIdle /\ FmtIdle

\* local time passes by one unit; the count of calls starts again when the
\* occurrence of the slot is over
Tick ==
    /\ ~(loop = "sleeping" /\ sleepLeft <= -MaxLate)
    /\ ~(loop = "posting" /\ ran >= MaxRun)
    /\ now' = (now + 1) % WeekUnits
    /\ sleepLeft' = IF Running THEN sleepLeft - 1 ELSE sleepLeft
    /\ ran' = IF loop = "posting" THEN ran + 1 ELSE ran
    /\ slotFires' = IF InSlot(now) /\ InSlot(now + 1) THEN slotFires ELSE 0
    /\ UNCHANGED <<channelId, loop, outcome, sent, eventVars, cardVars, fmtVars>>

\* on_ready, at login and at every later READY of the gateway
on_ready ==
    /\ IF ~Running
       THEN /\ loop' = "sleeping"
            /\ sleepLeft' = 0
            /\ outcome' = None
            /\ sent' = <<>>
       ELSE UNCHANGED <<loop, sleepLeft, outcome, sent>>
    /\ UNCHANGED <<now, channelId, ran, slotFires, eventVars, cardVars, fmtVars>>

\* one iteration of scheduler_loop, up to the call of post_update
scheduler_loop ==
    /\ loop = "sleeping"
    /\ sleepLeft <= 0
    /\ sleepLeft' = sleepLeft + LOOP_MINUTES * UnitsPerMinute
    /\ outcome' = None
    /\ sent' = <<>>
    /\ IF ShouldPost(now)
       THEN /\ loop' = "posting"
            /\ ran' = 0
            /\ slotFires' = Min(slotFires + 1, 2)
       ELSE UNCHANGED <<loop, ran, slotFires>>
    /\ UNCHANGED <<now, channelId, eventVars, cardVars, fmtVars>>

\* the call of post_update ends, and with it the iteration; Deliveries are the
\* results channel.send can have (TRUE: the message is delivered)
PostUpdateEnds(Deliveries) ==
    /\ loop = "posting"
    /\ \E l \in ListingSamples, c \in CardSamples, found \in BOOLEAN, delivered \in Deliveries :
          LET r == post_update(channelId, l, c, found, delivered) IN
          /\ outcome' = Some(r)
          /\ sent' = r.sent
          /\ loop' = IF r.raised = None THEN "sleeping" ELSE "failed"
          /\ sleepLeft' = IF r.raised = None /\ sleepLeft >= 0 THEN sleepLeft ELSE 0
    /\ ran' = 0
    /\ UNCHANGED <<now, channelId, slotFires, eventVars, cardVars, fmtVars>>

PostUpdate == PostUpdateEnds(BOOLEAN)

Next == Tick \/ on_ready \/ scheduler_loop \/ PostUpdate

Spec == SchedInit /\ [][Next]_vars

\* the behaviours of Spec in which channel.send never fails
PostUpdateDelivered == PostUpdateEnds({TRUE})

NextDelivered == Tick \/ on_ready \/ scheduler_loop \/ PostUpdateDelivered

SpecDelivered == SchedInit /\ [][NextDelivered]_vars

----------------------------------------------------------------------------
(* Properties of the scheduler and the pipeline *)

\* the local time at which the running post_update call was started
FiredAt == (now - ran) % WeekUnits

\* C1: the scheduler calls the pipeline at most once per occurrence of the
\* weekly slot, whatever the ticks and the runs of the pipeline do.
C1_OncePerSlot == slotFires <= 1

PipelineFailed ==
    /\ outcome # None
    /\ \/ The(outcome).raised # None
       \/ (The(outcome).built # None /\ The(The(outcome).built).caught # None)

\* C3: a failure inside a call of the pipeline never ends the scheduler loop:
\* after the failed cycle the loop is still running.
C3_LoopSurvivesFailure == PipelineFailed => Running

\* C4: a listing that is fetched and parsed but holds no event gives an outcome
\* of its own: not the fallback message and not the error type of a parse failure.
C4_NotFoundDistinct ==
    (outcome # None /\ The(outcome).listing = Some(EmptyListing)) =>
        LET b == The(The(outcome).built) IN
        /\ sent # <<>> => sent[1] # FALLBACK_MESSAGE
        /\ b.caught # None =>
              The(b.caught).type # The(get_next_event(NoTableListing).raised).type

\* a request of the call failed (network, timeout, status) or the listing has
\* no events table
TransportOrParseError(o) ==
    /\ o.listing # None
    /\ \/ The(o.listing).status # "ok"
       \/ The(o.listing) = NoTableListing
       \/ (The(o.listing) = GoodListing /\ The(o.card).status # "ok")

\* C5: with a configured channel that is found, a transport or parse error in
\* a call of the pipeline is caught in the call, which passes exactly one
\* message to the channel, the fallback text, and no event summary.
C5_FallbackOnError ==
    (outcome # None /\ The(outcome).configured /\ The(outcome).found
        /\ TransportOrParseError(The(outcome)))
    => /\ The(The(outcome).built).caught # None
       /\ sent = <<FALLBACK_MESSAGE>>

\* the request for the event page failed and the fallback text was sent
C5_Witness ==
    /\ outcome # None /\ The(outcome).configured /\ The(outcome).found
    /\ The(outcome).listing = Some(GoodListing)
    /\ The(The(outcome).card).status # "ok"
    /\ sent = <<FALLBACK_MESSAGE>>

----------------------------------------------------------------------------
(* Properties of format_message *)

\* the lines of a text: what lies between its "\n" tokens
RECURSIVE split(_, _)
split(cur, s) ==
    IF s = <<>> THEN <<cur>>
    ELSE IF Head(s) = "\n" THEN <<cur>> \o split(<<>>, Tail(s))
    ELSE split(Append(cur, Head(s)), Tail(s))

Lines(text) == split(<<>>, text)

IsPrefix(p, l) == Len(p) <= Len(l) /\ SubSeq(l, 1, Len(p)) = p

IsBoutLine(l) == l # <<>> /\ l[1] = "BULLET "
IsMoreLine(l) == l # <<>> /\ l[1] = "ELLIPSIS"

DigitValue(c) == CASE c = "0" -> 0 [] c = "1" -> 1 [] c = "2" -> 2 [] c = "3" -> 3
                   [] c = "4" -> 4 [] c = "5" -> 5 [] c = "6" -> 6 [] c = "7" -> 7
                   [] c = "8" -> 8 [] c = "9" -> 9

RECURSIVE DecimalValue(_)
DecimalValue(ds) ==
    IF Len(ds) = 1 THEN DigitValue(ds[1])
    ELSE 10 * DecimalValue(SubSeq(ds, 1, Len(ds) - 1)) + DigitValue(ds[Len(ds)])

\* the line reads "...and N more bouts" for this N
ReadsMore(l, N) ==
    /\ Len(l) >= 4
    /\ l[1] = "ELLIPSIS" /\ l[2] = "and " /\ l[Len(l)] = " more bouts"
    /\ DecimalValue(SubSeq(l, 3, Len(l) - 1)) = N

\* C6: for n fights format_message renders exactly min(n, 8) bout lines, the
\* first min(n, 8) fights in their input order, and a last line "...and N more
\* bouts" with N = n - 8 exactly when n > 8.
C6_Truncation ==
    fmtResult # None =>
        LET lines == Lines(The(fmtResult))
            bouts == SelectSeq(lines, IsBoutLine)
            more  == SelectSeq(lines, IsMoreLine)
            n     == Len(fmtFights)
        IN  /\ Len(bouts) = Min(n, 8)
            /\ \A i \in 1..Len(bouts) :
                  IsPrefix(<<"BULLET ">> \o fmtFights[i].red \o <<" vs ">> \o fmtFights[i].blue,
                           bouts[i])
            /\ Len(more) = (IF n > 8 THEN 1 ELSE 0)
            /\ n > 8 => /\ ReadsMore(more[1], n - 8)
                        /\ lines[Len(lines)] = more[1]

\* ten fights, not all the same, have been formatted
C6_Witness ==
    /\ fmtResult # None
    /\ Len(fmtFights) = 10
    /\ fmtFights[1] # fmtFights[2]
    /\ fmtFights[8] # fmtFights[9]

Tokens(text) == {text[i] : i \in 1..Len(text)}

\* C10: with no fights format_message renders the header only, with no body
\* section, and the location is in the header only when it is not empty.
C10_HeaderOnly ==
    (fmtResult # None /\ fmtFights = <<>>) =>
        /\ "**Fight Card**" \notin Tokens(The(fmtResult))
        /\ "PIN " \in Tokens(The(fmtResult)) <=> Get(fmtEvent, "location", <<>>) # <<>>

----------------------------------------------------------------------------
(* Properties of get_next_event *)

\* C9: every event get_next_event returns has a title that is not empty.
C9_TitleNeverEmpty ==
    (eventResult # None /\ The(eventResult).raised = None) =>
        The(eventResult).value.title # <<>>

----------------------------------------------------------------------------
(* Properties of get_fight_card *)

\* C7: every fight get_fight_card returns, from the rows or from the fallback
\* containers, has two names that are not empty and differ.
C7_SidesDistinct ==
    (cardResult # None /\ The(cardResult).raised = None) =>
        \A i \in 1..Len(The(cardResult).value) :
            LET f == The(cardResult).value[i] IN
            f.red # <<>> /\ f.blue # <<>> /\ f.red # f.blue

\* the name occurrences of a row
Names(row) == [i \in 1..Len(row.links) |-> get_text(row.links[i])]

\* the first two distinct names of a sequence of occurrences, or nothing
FirstTwoDistinct(names) ==
    LET named == {i \in 1..Len(names) : names[i] # <<>>} IN
    IF Cardinality({names[i] : i \in named}) < 2 THEN <<>>
    ELSE LET i1    == CHOOSE i \in named : \A j \in named : i <= j
             other == {i \in named : names[i] # names[i1]}
             i2    == CHOOSE i \in other : \A j \in other : i <= j
         IN  << <<names[i1], names[i2]>> >>

RECURSIVE ExpectedSides(_)
ExpectedSides(rows) ==
    IF rows = <<>> THEN <<>>
    ELSE FirstTwoDistinct(Names(Head(rows))) \o ExpectedSides(Tail(rows))

\* C8: a row's fight has the first two distinct names of the row, in
\* first-seen order, as red and blue; a row with fewer than two distinct names
\* adds no fight.
C8_FirstTwoDistinct ==
    (cardResult # None /\ Truthy(eventUrl) /\ page.status = "ok") =>
        /\ [i \in 1..Len(primary) |-> <<primary[i].red, primary[i].blue>>]
               = ExpectedSides(page.body.rows)
        /\ primary # <<>> => The(cardResult).value = primary

\* a row with the occurrences A, A, B, A, B has been parsed
C8_Witness ==
    /\ cardResult # None /\ Truthy(eventUrl) /\ page.status = "ok"
    /\ page.body.rows # <<>>
    /\ Names(page.body.rows[1]) = << <<"A">>, <<"A">>, <<"B">>, <<"A">>, <<"B">> >>
    /\ Len(primary) = 1 /\ primary[1].red = <<"A">> /\ primary[1].blue = <<"B">>

====
